---- MODULE Spec2Model ----
(***************************************************************************)
(* Widget generation for the OpenBB Platform API                           *)
(* (openbb_platform_pro_backend/main.py and utils.py).                     *)
(*                                                                         *)
(* Python values are modelled as follows.                                  *)
(*   str            a TLA+ string                                          *)
(*   list           a sequence                                             *)
(*   dict whose key order or key set is computed (the optional map, the    *)
(*                  properties of a schema, widgets_json, paths)           *)
(*                  a sequence of entries [k |-> key, v |-> value] in      *)
(*                  insertion order                                        *)
(*   dict read by literal keys (an operation, a parameter, a type          *)
(*                  descriptor, a widget) a function whose DOMAIN is the   *)
(*                  set of keys present                                    *)
(*   a value stored in the optional map (list / str / int / None)          *)
(*                  a tagged record, see PyStr .. PyBool                   *)
(***************************************************************************)
EXTENDS Integers, Sequences, FiniteSets, TLC

VARIABLES
    openapi,        \* main.py:33  the interface description (read only)
    hashseed,       \* the interpreter's string hash seed of this process
    now,            \* datetime.now() of this process, as a day number
    pc,             \* position of the module-level code / of the caller
    route_idx,      \* index into routes of the next loop iteration
    query_schema,   \* main.py:44
    has_chart,      \* main.py:44
    columns_defs,   \* main.py:54  [bound |-> is the name bound, v |-> list]
    widgets_json,   \* main.py:34
    exc,            \* the exception that ended the pass, "" when none
    widgets_file,   \* content of widgets.json on disk, <<>> before any pass
    outputs,        \* the mappings of the passes completed so far
    settings_file,  \* ~/.openbb_platform/user_settings.json
    copy_file,      \* ~/.openbb_platform/user_settings_copy.json
    session,        \* the locals of launch_api and its position
    pass_no         \* number of the generation pass (process start) under way

vars == <<openapi, hashseed, now, pc, route_idx, query_schema, has_chart,
          columns_defs, widgets_json, exc, widgets_file, outputs,
          settings_file, copy_file, session, pass_no>>

genVars == <<openapi, hashseed, now, pc, route_idx, query_schema, has_chart,
             columns_defs, widgets_json, exc, widgets_file, outputs, pass_no>>

launchVars == <<settings_file, copy_file, session>>

----------------------------------------------------------------------------
(* Bounds of the model *)

MaxParams == 2
MaxRefs == 2
MaxRoutes == 2
MaxPasses == 2
MaxSessions == 2

(* Program constants *)

StartDateDays == 90

----------------------------------------------------------------------------
(* Python strings *)

Ch(s, i) == SubSeq(s, i, i)

LowerAlpha == "abcdefghijklmnopqrstuvwxyz"
UpperAlpha == "ABCDEFGHIJKLMNOPQRSTUVWXYZ"

\* the cased characters, each with its lower and upper form
CaseTable ==
    [c \in {Ch(LowerAlpha, k) : k \in 1..Len(LowerAlpha)}
            \cup {Ch(UpperAlpha, k) : k \in 1..Len(UpperAlpha)} |->
        LET k == CHOOSE j \in 1..Len(LowerAlpha) :
                    Ch(LowerAlpha, j) = c \/ Ch(UpperAlpha, j) = c
        IN [lower |-> Ch(LowerAlpha, k), upper |-> Ch(UpperAlpha, k)]]

RECURSIVE TitleFrom(_, _, _)
TitleFrom(s, i, prevCased) ==
    IF i > Len(s) THEN ""
    ELSE LET c == Ch(s, i)
             cased == c \in DOMAIN CaseTable
             out == IF ~cased THEN c
                    ELSE IF prevCased THEN CaseTable[c].lower ELSE CaseTable[c].upper
         IN out \o TitleFrom(s, i + 1, cased)

\* str.title()
str_title(s) == TitleFrom(s, 1, FALSE)

\* str.startswith(prefix)
str_startswith(s, prefix) ==
    Len(s) >= Len(prefix) /\ SubSeq(s, 1, Len(prefix)) = prefix

RECURSIVE ReplaceFrom(_, _, _, _)
ReplaceFrom(s, old, new, i) ==
    IF i > Len(s) THEN ""
    ELSE IF i + Len(old) - 1 <= Len(s) /\ SubSeq(s, i, i + Len(old) - 1) = old
         THEN new \o ReplaceFrom(s, old, new, i + Len(old))
         ELSE Ch(s, i) \o ReplaceFrom(s, old, new, i + 1)

\* str.replace(old, new), old non-empty
str_replace(s, old, new) == ReplaceFrom(s, old, new, 1)

RECURSIVE LastSlash(_, _)
LastSlash(s, i) ==
    IF i = 0 THEN 0 ELSE IF Ch(s, i) = "/" THEN i ELSE LastSlash(s, i - 1)

\* s.split("/")[-1]
split_last(s) == SubSeq(s, LastSlash(s, Len(s)) + 1, Len(s))

----------------------------------------------------------------------------
(* Python dicts in insertion order *)

DictHas(d, key) == \E i \in 1..Len(d) : d[i].k = key

DictGet(d, key) == d[CHOOSE i \in 1..Len(d) : d[i].k = key].v

\* d[key] = value : an existing key keeps its position
DictSet(d, key, value) ==
    IF DictHas(d, key)
    THEN [i \in 1..Len(d) |-> IF d[i].k = key THEN [k |-> key, v |-> value] ELSE d[i]]
    ELSE Append(d, [k |-> key, v |-> value])

DictKeys(d) == [i \in 1..Len(d) |-> d[i].k]

SeqToSet(s) == {s[i] : i \in 1..Len(s)}

NoDuplicates(s) == \A i, j \in 1..Len(s) : i # j => s[i] # s[j]

(* Values of the optional map *)

PyList(l) == [t |-> "list", s |-> "", n |-> 0, l |-> l]
PyStr(s) == [t |-> "str", s |-> s, n |-> 0, l |-> <<>>]
PyInt(n) == [t |-> "int", s |-> "", n |-> n, l |-> <<>>]
PyNone == [t |-> "None", s |-> "", n |-> 0, l |-> <<>>]
\* a date rendered by strftime("%Y-%m-%d"): one string per day number
PyDateStr(day) == [t |-> "str", s |-> "%Y-%m-%d", n |-> day, l |-> <<>>]

----------------------------------------------------------------------------
(* Iteration order of a set of strings.  It follows the strings' hashes,   *)
(* which the interpreter salts with a per-process seed, so the order is    *)
(* fixed within a process and may differ between processes.  Two seeds are *)
(* modelled, which iterate every set in opposite orders.  The strings that *)
(* reach a set in this program are enum values and property keys.          *)

HashSeeds == {0, 1}

HashUniverse ==
    <<"1d", "1W", "1M", "asc", "desc",
      "date", "period", "open", "close", "volume", "value">>

StrHash(x) == CHOOSE i \in 1..Len(HashUniverse) : HashUniverse[i] = x

HashSlot(x) == IF hashseed = 0 THEN StrHash(x) ELSE Len(HashUniverse) - StrHash(x)

RECURSIVE SetIter(_)
SetIter(S) ==
    IF S = {} THEN <<>>
    ELSE LET x == CHOOSE y \in S : \A z \in S : HashSlot(y) <= HashSlot(z)
         IN <<x>> \o SetIter(S \ {x})

\* list(set(xs))
list_set(xs) == SetIter(SeqToSet(xs))

----------------------------------------------------------------------------
(* utils.py: get_query_schema_for_widget *)

\* utils.py:28
SkippedParamsNoOrder == {"sort", "limit"}
SkippedParams == {"sort", "limit", "order"}

RECURSIVE CollectEnums(_, _)
\* utils.py:40-43
CollectEnums(anyOf, i) ==
    IF i > Len(anyOf) THEN <<>>
    ELSE (IF "enum" \in DOMAIN anyOf[i] THEN anyOf[i].enum ELSE <<>>)
         \o CollectEnums(anyOf, i + 1)

\* utils.py:47-51
AnyOfTypes(anyOf) ==
    {anyOf[i].type : i \in {j \in 1..Len(anyOf) : "type" \in DOMAIN anyOf[j]}}

\* utils.py:53-58 : the placeholder chosen from the types of an anyOf
AnyOfPlaceholderIntFirst(optional, param_name, types) ==
    IF "integer" \in types THEN DictSet(optional, param_name, PyInt(0))
    ELSE IF "string" \in types THEN DictSet(optional, param_name, PyStr("string"))
    ELSE IF "null" \in types THEN DictSet(optional, param_name, PyNone)
    ELSE optional
AnyOfPlaceholder(optional, param_name, types) ==
    IF "string" \in types THEN DictSet(optional, param_name, PyStr("string"))
    ELSE IF "integer" \in types THEN DictSet(optional, param_name, PyInt(0))
    ELSE IF "null" \in types THEN DictSet(optional, param_name, PyNone)
    ELSE optional

\* utils.py:35-64 : the value contributed by the parameter's type descriptor
ClassifyParam(optional, param) ==
    LET schema == param.schema
        param_name == param.name
    IN IF "enum" \in DOMAIN schema
       THEN DictSet(optional, param_name, PyList(schema.enum))
       ELSE IF "anyOf" \in DOMAIN schema
       THEN LET enums == CollectEnums(schema.anyOf, 1)
            IN IF enums # <<>>
               THEN DictSet(optional, param_name, PyList(list_set(enums)))
               ELSE AnyOfPlaceholder(optional, param_name, AnyOfTypes(schema.anyOf))
       ELSE IF "type" \in DOMAIN schema /\ schema.type = "string"
       THEN DictSet(optional, param_name, PyStr("string"))
       ELSE IF "type" \in DOMAIN schema /\ schema.type = "integer"
       THEN DictSet(optional, param_name, PyInt(0))
       ELSE optional

\* utils.py:66-71
DefaultDates(optional, param_name) ==
    IF param_name = "start_date"
    THEN DictSet(optional, "start_date", PyDateStr(now - StartDateDays))
    ELSE optional

RECURSIVE QueryParamLoop(_, _, _)
\* utils.py:24-71 : acc = [optional, has_chart]
QueryParamLoop(parameters, i, acc) ==
    IF i > Len(parameters) THEN acc
    ELSE LET param == parameters[i]
         IN IF param.in # "query" THEN QueryParamLoop(parameters, i + 1, acc)
            ELSE IF param.name \in SkippedParams
            THEN QueryParamLoop(parameters, i + 1, acc)
            ELSE IF param.name = "chart"
            THEN QueryParamLoop(parameters, i + 1,
                                [acc EXCEPT !.has_chart = TRUE])
            ELSE QueryParamLoop(parameters, i + 1,
                    [acc EXCEPT !.optional =
                        DefaultDates(ClassifyParam(acc.optional, param), param.name)])

\* openapi_json["paths"][route]["get"]
GetOperation(openapi_json, route) ==
    DictGet(DictGet(openapi_json.paths, route), "get")

\* utils.py:6-72 : returns (_query_schema, _has_chart)
get_query_schema_for_widget(openapi_json, command_route) ==
    LET command_schema == GetOperation(openapi_json, command_route)
        parameters == IF "parameters" \in DOMAIN command_schema
                      THEN command_schema.parameters ELSE <<>>
        acc == QueryParamLoop(parameters, 1, [optional |-> <<>>, has_chart |-> FALSE])
    IN [query_schema |-> [optional |-> acc.optional], has_chart |-> acc.has_chart]

----------------------------------------------------------------------------
(* utils.py: get_data_schema_for_widget *)

RECURSIVE FlattenOperations(_, _)
\* utils.py:87-88 : every operation of every path, in iteration order
FlattenOperations(paths, i) ==
    IF i > Len(paths) THEN <<>>
    ELSE [j \in 1..Len(paths[i].v) |-> paths[i].v[j].v]
         \o FlattenOperations(paths, i + 1)

\* utils.py:91-93 : every subscript of the chain finds its key
HasResponseRef(details) ==
    /\ "responses" \in DOMAIN details
    /\ "200" \in DOMAIN details.responses
    /\ "content" \in DOMAIN details.responses["200"]
    /\ "application/json" \in DOMAIN details.responses["200"].content
    /\ "schema" \in DOMAIN details.responses["200"].content["application/json"]
    /\ "$ref" \in DOMAIN details.responses["200"].content["application/json"].schema

ResponseRef(details) ==
    details.responses["200"].content["application/json"].schema["$ref"]

NoSchema == [none |-> TRUE]

\* utils.py:75-99 : raised = the exception that left the function ("" none),
\* found = a schema is returned (FALSE models None)
get_data_schema_for_widget(openapi_json, operation_id) ==
    LET ops == FlattenOperations(openapi_json.paths, 1)
        hits == {i \in 1..Len(ops) :
                    "operationId" \in DOMAIN ops[i] /\ ops[i].operationId = operation_id}
    IN IF hits = {}
       THEN [raised |-> "", found |-> FALSE, schema |-> NoSchema]
       ELSE LET details == ops[CHOOSE i \in hits : \A j \in hits : i <= j]
            IN IF ~HasResponseRef(details)
               THEN [raised |-> "KeyError", found |-> FALSE, schema |-> NoSchema]
               ELSE LET schema_name == split_last(ResponseRef(details))
                    IN IF ~DictHas(openapi_json.components.schemas, schema_name)
                       THEN [raised |-> "KeyError", found |-> FALSE, schema |-> NoSchema]
                       ELSE [raised |-> "", found |-> TRUE,
                             schema |-> DictGet(openapi_json.components.schemas,
                                                schema_name)]

----------------------------------------------------------------------------
(* utils.py: data_schema_to_columns_defs *)

RECURSIVE OneOfRefs(_, _)
\* utils.py:114-118
OneOfRefs(oneOf, i) ==
    IF i > Len(oneOf) THEN <<>>
    ELSE (IF "$ref" \in DOMAIN oneOf[i]
          THEN <<split_last(oneOf[i]["$ref"])>> ELSE <<>>)
         \o OneOfRefs(oneOf, i + 1)

RECURSIVE AnyOfRefs(_, _)
\* utils.py:109-119
AnyOfRefs(anyOf, i) ==
    IF i > Len(anyOf) THEN <<>>
    ELSE (IF "items" \in DOMAIN anyOf[i] /\ "oneOf" \in DOMAIN anyOf[i].items
          THEN OneOfRefs(anyOf[i].items.oneOf, 1) ELSE <<>>)
         \o AnyOfRefs(anyOf, i + 1)

\* utils.py:105-119
SchemaRefs(result_schema_ref) ==
    IF "anyOf" \in DOMAIN result_schema_ref
    THEN AnyOfRefs(result_schema_ref.anyOf, 1) ELSE <<>>

RECURSIVE ResolveRefs(_, _, _)
\* utils.py:122-126
ResolveRefs(openapi_json, schema_refs, i) ==
    IF i > Len(schema_refs) THEN <<>>
    ELSE (IF DictHas(openapi_json.components.schemas, schema_refs[i])
          THEN <<DictGet(openapi_json.components.schemas, schema_refs[i])>>
          ELSE <<>>)
         \o ResolveRefs(openapi_json, schema_refs, i + 1)

PropertyKeys(schema) == SeqToSet(DictKeys(schema.properties))

RECURSIVE IntersectKeys(_, _, _)
\* utils.py:138-139 : intersection_update over schemas[1:]
IntersectKeys(common, schemas, i) ==
    IF i > Len(schemas) THEN common
    ELSE IntersectKeys(common \cap PropertyKeys(schemas[i]), schemas, i + 1)

\* utils.py:133-139 : the keys in the order the loop of line 142 visits them
CommonKeysFirstSchema(schemas) ==
    IF Len(schemas) = 1 THEN DictKeys(schemas[1].properties)
    ELSE SetIter(PropertyKeys(schemas[1]))
CommonKeys(schemas) ==
    IF Len(schemas) = 1 THEN DictKeys(schemas[1].properties)
    ELSE SetIter(IntersectKeys(PropertyKeys(schemas[1]), schemas, 2))

\* utils.py:144-149
CellDataType(prop) ==
    LET prop_type == IF "type" \in DOMAIN prop THEN prop.type ELSE "string"
    IN IF prop_type = "number" \/ prop_type = "integer" THEN "number"
       ELSE IF "format" \in DOMAIN prop /\ prop.format \in {"date", "date-time"}
       THEN "date"
       ELSE "text"

\* utils.py:143-162
ColumnDef(first_schema, key) ==
    LET prop == DictGet(first_schema.properties, key)
        cell_data_type == CellDataType(prop)
        column_def ==
            [field |-> key,
             headerName |-> IF "title" \in DOMAIN prop THEN prop.title
                            ELSE str_title(key),
             cellDataType |-> cell_data_type,
             chartDataType |-> IF cell_data_type = "number" THEN "series"
                               ELSE "category"]
    IN IF cell_data_type = "date" THEN column_def @@ ("formatterFn" :> "date")
       ELSE IF cell_data_type = "number" THEN column_def @@ ("formatterFn" :> "int")
       ELSE column_def

\* utils.py:102-166
data_schema_to_columns_defs(openapi_json, result_schema_ref) ==
    LET schema_refs == SchemaRefs(result_schema_ref)
        schemas == ResolveRefs(openapi_json, schema_refs, 1)
    IN IF schemas = <<>> THEN <<>>
       ELSE LET common_keys == CommonKeys(schemas)
            IN [i \in 1..Len(common_keys) |-> ColumnDef(schemas[1], common_keys[i])]

ColumnFields(defs) == [i \in 1..Len(defs) |-> defs[i].field]

----------------------------------------------------------------------------
(* main.py: the module-level generation pass *)

\* main.py:36-38
RouteSelectedNoPrefixTest(openapi_json, p) ==
    DictHas(DictGet(openapi_json.paths, p), "get")
RouteSelected(openapi_json, p) ==
    str_startswith(p, "/api") /\ DictHas(DictGet(openapi_json.paths, p), "get")

RECURSIVE SelectRoutes(_, _)
SelectRoutes(openapi_json, i) ==
    IF i > Len(openapi_json.paths) THEN <<>>
    ELSE (IF RouteSelected(openapi_json, openapi_json.paths[i].k)
          THEN <<openapi_json.paths[i].k>> ELSE <<>>)
         \o SelectRoutes(openapi_json, i + 1)

\* main.py:36-38
routes == SelectRoutes(openapi, 1)

\* obj[key] = value on a dict read by literal keys
SetKey(obj, key, value) == (key :> value) @@ obj

\* del obj[key]
DelKey(obj, key) == [x \in DOMAIN obj \ {key} |-> obj[x]]

\* json.dumps / json.loads : the text is kept as the value it denotes; every
\* value of a widget is a str, an int, a bool, None, a list or a str-keyed
\* dict, which the round trip returns as an equal, unshared value
json_dumps(value) == [text |-> value]
json_loads(text) == text.text

\* main.py:75, 77 : `x in list` compares x with every element by ==, and a
\* str never equals a dict
StrEqualsDict(x, element) == FALSE

StrInList(x, list) == \E i \in 1..Len(list) : StrEqualsDict(x, list[i])

\* main.py:56-71
BaseWidget(route, operation, query) ==
    [name |-> "OBB " \o str_title(str_replace(operation.operationId, "_", " ")),
     description |-> operation.description,
     category |-> str_title(operation.tags[1]),
     widgetType |-> operation.tags[1],
     widgetId |-> "OBB " \o operation.operationId,
     params |-> query,
     endpoint |-> str_replace(route, "/api", "api"),
     gridData |-> [w |-> 20, h |-> 5],
     data |-> [dataKey |-> "results", table |-> [showAll |-> TRUE]]]

\* main.py:73-78
TableBlock(table, defs) ==
    IF defs = <<>> THEN table
    ELSE LET t1 == SetKey(table, "columnsDefs", defs)
             t2 == IF StrInList("date", defs) THEN SetKey(t1, "index", "date") ELSE t1
         IN IF StrInList("period", defs) THEN SetKey(t2, "index", "period") ELSE t2

\* main.py:85-96 : base is widget_config as the derivation leaves it, chart
\* is widget_config_chart
ChartVariantShallowCopy(widget_config) ==
    LET c1 == [widget_config EXCEPT !.data = DelKey(@, "table")]
        c2 == [c1 EXCEPT !.name = @ \o " Chart",
                         !.widgetId = @ \o "_chart",
                         !.params = SetKey(@, "chart", TRUE)]
        c3 == SetKey(c2, "defaultViz", "chart")
        c4 == [c3 EXCEPT !.data = SetKey(SetKey(@, "dataKey", "chart.content"),
                                         "chart", [type |-> "line"])]
    IN [base |-> [widget_config EXCEPT !.data = c4.data, !.params = c4.params],
        chart |-> c4]
ChartVariant(widget_config) ==
    LET c0 == json_loads(json_dumps(widget_config))
        c1 == [c0 EXCEPT !.data = DelKey(@, "table")]
        c2 == [c1 EXCEPT !.name = @ \o " Chart",
                         !.widgetId = @ \o "_chart",
                         !.params = SetKey(@, "chart", TRUE)]
        c3 == SetKey(c2, "defaultViz", "chart")
        c4 == [c3 EXCEPT !.data = SetKey(SetKey(@, "dataKey", "chart.content"),
                                         "chart", [type |-> "line"])]
    IN [base |-> widget_config, chart |-> c4]

\* main.py:48-52
HasResults(data_schema) ==
    /\ data_schema.found
    /\ "properties" \in DOMAIN data_schema.schema
    /\ DictHas(data_schema.schema.properties, "results")

\* main.py:80-98 : the stores of one iteration into widgets_json
StoreWidgets(mapping, widget_config, chart_flag) ==
    IF chart_flag
    THEN LET derived == ChartVariant(widget_config)
         IN DictSet(DictSet(mapping, derived.base.widgetId, derived.base),
                    derived.chart.widgetId, derived.chart)
    ELSE DictSet(mapping, widget_config.widgetId, widget_config)

\* main.py:39-98 : one iteration of the route loop
RouteStep ==
    /\ pc = "loop"
    /\ route_idx <= Len(routes)
    /\ LET route == routes[route_idx]
           operation == GetOperation(openapi, route)
           widget_id == operation.operationId
           query == get_query_schema_for_widget(openapi, route)
           data_schema == get_data_schema_for_widget(openapi, widget_id)
           defs == IF HasResults(data_schema)
                   THEN [bound |-> TRUE,
                         v |-> data_schema_to_columns_defs(
                                   openapi,
                                   DictGet(data_schema.schema.properties, "results"))]
                   ELSE columns_defs
           base == BaseWidget(route, operation, query.query_schema)
           widget_config ==
               [base EXCEPT !.data.table = TableBlock(@, defs.v)]
       IN /\ query_schema' = query.query_schema
          /\ has_chart' = query.has_chart
          /\ IF data_schema.raised # ""
             THEN /\ pc' = "raised"
                  /\ exc' = [type |-> data_schema.raised,
                             in |-> "get_data_schema_for_widget"]
                  /\ UNCHANGED <<columns_defs, widgets_json, route_idx>>
             ELSE IF ~defs.bound
             THEN /\ pc' = "raised"
                  /\ exc' = [type |-> "NameError", in |-> "main"]
                  /\ UNCHANGED <<columns_defs, widgets_json, route_idx>>
             ELSE /\ columns_defs' = defs
                  /\ widgets_json' =
                        StoreWidgets(widgets_json, widget_config, query.has_chart)
                  /\ route_idx' = route_idx + 1
                  /\ UNCHANGED <<pc, exc>>
    /\ UNCHANGED <<openapi, hashseed, now, widgets_file, outputs, pass_no>>
    /\ UNCHANGED launchVars

\* main.py:100-102 : the loop is over, widgets.json is written
WriteWidgetsFile ==
    /\ pc = "loop"
    /\ route_idx > Len(routes)
    /\ widgets_file' = json_dumps(widgets_json)
    /\ outputs' = Append(outputs, widgets_json)
    /\ pc' = "serving"
    /\ UNCHANGED <<openapi, hashseed, now, route_idx, query_schema, has_chart,
                   columns_defs, widgets_json, exc, pass_no>>
    /\ UNCHANGED launchVars

NoException == [type |-> "", in |-> ""]

Unbound == [bound |-> FALSE, v |-> <<>>]

EmptyQuery == [optional |-> <<>>]

\* main.py:33-34 : the process is started again and imports the module anew
\* over the same interface description
Restart ==
    /\ pc \in {"serving", "raised"}
    /\ pass_no < MaxPasses
    /\ pass_no' = pass_no + 1
    /\ hashseed' \in HashSeeds
    /\ \E later \in 0..1 : now' = now + later
    /\ pc' = "loop"
    /\ route_idx' = 1
    /\ query_schema' = EmptyQuery
    /\ has_chart' = FALSE
    /\ columns_defs' = Unbound
    /\ widgets_json' = <<>>
    /\ exc' = NoException
    /\ UNCHANGED <<openapi, widgets_file, outputs>>
    /\ UNCHANGED launchVars

----------------------------------------------------------------------------
(* The interface descriptions the pass is run on.  They have the shape the *)
(* framework's schema generator emits: every operation has an operationId, *)
(* a description and tags, operationIds and paths are unique, a parameter  *)
(* is unique by name and location, and an enum lists at least one value.   *)

SchemaRef(name) == "$ref" :> ("#/components/schemas/" \o name)

\* the `results` descriptor of a response schema: anyOf -> items -> oneOf
ResultsOf(names) ==
    [anyOf |-> <<[type |-> "array",
                  items |-> [oneOf |-> [i \in 1..Len(names) |-> SchemaRef(names[i])]]],
                 [type |-> "null"]>>]

\* the same references under a nesting that is not the expected one
ResultsShape(shape, names) ==
    CASE shape = 1 -> ResultsOf(names)
      [] shape = 2 -> [type |-> "array",
                       items |-> [oneOf |-> [i \in 1..Len(names) |->
                                                SchemaRef(names[i])]]]
      [] shape = 3 -> [anyOf |-> <<[type |-> "array",
                                    items |-> [anyOf |-> [i \in 1..Len(names) |->
                                                            SchemaRef(names[i])]]],
                                   [type |-> "null"]>>]
      [] shape = 4 -> [anyOf |-> <<[type |-> "array"], [type |-> "null"]>>]
      [] shape = 5 -> [anyOf |-> <<[type |-> "array",
                                    items |-> [oneOf |-> [i \in 1..Len(names) |->
                                        IF i = 1 THEN [type |-> "object"]
                                        ELSE SchemaRef(names[i])]]],
                                   [type |-> "null"]>>]

Wrapper(results) ==
    [title |-> "OBBject",
     properties |-> <<[k |-> "results", v |-> results],
                      [k |-> "provider", v |-> [type |-> "string"]]>>]

ItemSchemas ==
    <<[k |-> "Hist",
       v |-> [title |-> "Hist",
              properties |->
                <<[k |-> "date", v |-> [type |-> "string", format |-> "date",
                                        title |-> "Date"]],
                  [k |-> "open", v |-> [type |-> "number"]],
                  [k |-> "close", v |-> [type |-> "number", title |-> "Close"]]>>]],
      [k |-> "HistB",
       v |-> [title |-> "HistB",
              properties |->
                <<[k |-> "close", v |-> [type |-> "integer"]],
                  [k |-> "date", v |-> [type |-> "string", format |-> "date-time"]],
                  [k |-> "volume", v |-> [type |-> "integer"]]>>]],
      [k |-> "PeriodData",
       v |-> [title |-> "PeriodData",
              properties |->
                <<[k |-> "period", v |-> [type |-> "string"]],
                  [k |-> "value", v |-> [type |-> "number", format |-> "date"]]>>]],
      [k |-> "Both",
       v |-> [title |-> "Both",
              properties |->
                <<[k |-> "period", v |-> [type |-> "string"]],
                  [k |-> "date", v |-> [format |-> "date"]],
                  [k |-> "value", v |-> [type |-> "number"]]>>]]>>

\* names a oneOf may reference; "Gone" has no entry in components.schemas
ItemNames == <<"Hist", "HistB", "PeriodData", "Both", "Gone">>

\* response schemas an operation may reference; "OBBject_Missing" has no entry
ResponseNames ==
    <<"OBBject_Hist", "OBBject_Multi", "OBBject_NoResults", "OBBject_Plain",
      "OBBject_Missing", "OBBject_Period", "OBBject_Both", "OBBject_Unresolved">>

Components ==
    [schemas |->
        <<[k |-> "OBBject_Hist", v |-> Wrapper(ResultsOf(<<"Hist">>))],
          [k |-> "OBBject_Multi", v |-> Wrapper(ResultsOf(<<"Hist", "HistB">>))],
          [k |-> "OBBject_Period", v |-> Wrapper(ResultsOf(<<"PeriodData">>))],
          [k |-> "OBBject_Both", v |-> Wrapper(ResultsOf(<<"Both">>))],
          [k |-> "OBBject_Unresolved", v |-> Wrapper(ResultsOf(<<"Gone">>))],
          [k |-> "OBBject_NoResults",
           v |-> [title |-> "OBBject",
                  properties |-> <<[k |-> "provider", v |-> [type |-> "string"]]>>]],
          [k |-> "OBBject_Plain", v |-> [title |-> "Plain", type |-> "object"]]>>
        \o ItemSchemas]

\* responses of an operation: resp = 0 has no content under "200"
Responses(resp) ==
    IF resp = 0 THEN "200" :> [description |-> "Successful Response"]
    ELSE "200" :> [description |-> "Successful Response",
                   content |-> ("application/json" :>
                                   [schema |-> SchemaRef(ResponseNames[resp])])]

SchemaMenu ==
    <<[enum |-> <<"asc", "desc">>, type |-> "string"],
      [anyOf |-> <<[enum |-> <<"1d", "1W">>, type |-> "string"],
                   [enum |-> <<"1W", "1M">>, type |-> "string"],
                   [type |-> "null"]>>],
      [anyOf |-> <<[enum |-> <<"1d">>], [type |-> "string"]>>],
      [anyOf |-> <<[type |-> "string"], [type |-> "null"]>>],
      [anyOf |-> <<[type |-> "integer"], [type |-> "null"]>>],
      [anyOf |-> <<[type |-> "integer"], [type |-> "string"]>>],
      [anyOf |-> <<[type |-> "null"]>>],
      [anyOf |-> <<[type |-> "number"], [type |-> "boolean"]>>],
      [anyOf |-> <<[title |-> "Untyped"]>>],
      [type |-> "string"],
      [type |-> "integer"],
      [type |-> "boolean"],
      [title |-> "Untyped"]>>

Param(name, location, schema) ==
    [name |-> name, in |-> location, schema |-> SchemaMenu[schema]]

RECURSIVE ParamsNamed(_, _, _)
ParamsNamed(name, location, schemas) ==
    IF schemas = <<>> THEN <<>>
    ELSE <<Param(name, location, Head(schemas))>>
         \o ParamsNamed(name, location, Tail(schemas))

\* the parameters an operation may declare
ParamMenu ==
    ParamsNamed("symbol", "query", <<1, 2, 3, 4, 5, 6, 7, 8, 9, 10, 11, 12, 13>>)
    \o ParamsNamed("sort", "query", <<1>>)
    \o ParamsNamed("limit", "query", <<5>>)
    \o ParamsNamed("order", "query", <<2, 10>>)
    \o ParamsNamed("chart", "query", <<4, 12>>)
    \o ParamsNamed("start_date", "query", <<4, 13>>)
    \o ParamsNamed("chart", "path", <<12>>)
    \o ParamsNamed("symbol", "path", <<10>>)

\* parameter lists of the route families: 0 stands for no `parameters` key
ParamLists ==
    <<<<Param("symbol", "query", 10), Param("chart", "query", 12)>>,
      <<Param("interval", "query", 2), Param("start_date", "query", 4),
        Param("limit", "query", 11)>>>>

Operation(id, tag, params, withParams, resp) ==
    LET op == [operationId |-> id,
               description |-> "Get " \o id,
               tags |-> <<tag>>,
               responses |-> Responses(resp)]
    IN IF withParams THEN op @@ [parameters |-> params] ELSE op

\* the paths a description may hold, each with the parameter lists (0: no
\* `parameters` key) and the responses (0: no content) its get may declare
PathMenu ==
    <<[path |-> "/api/v1/equity/price", id |-> "equity_price", tag |-> "equity",
       methods |-> <<"post", "get">>, params |-> {0, 1, 2}, resps |-> 0..5],
      [path |-> "/api/v1/equity/price_chart", id |-> "equity_price_chart",
       tag |-> "equity", methods |-> <<"get">>, params |-> {0, 1}, resps |-> {1, 2, 3}],
      [path |-> "/api/v1/economy/gdp", id |-> "economy_gdp", tag |-> "economy",
       methods |-> <<"get">>, params |-> {0, 2}, resps |-> {0, 1, 4}],
      [path |-> "/api/v1/news", id |-> "news", tag |-> "news",
       methods |-> <<"post">>, params |-> {0}, resps |-> {1}],
      [path |-> "/coverage", id |-> "coverage", tag |-> "coverage",
       methods |-> <<"get">>, params |-> {0}, resps |-> {1}]>>

\* one entry of `paths`
PathEntry(entry, params, withParams, resp) ==
    [k |-> entry.path,
     v |-> [m \in 1..Len(entry.methods) |->
              [k |-> entry.methods[m],
               v |-> IF entry.methods[m] = "get"
                     THEN Operation(entry.id, entry.tag, params, withParams, resp)
                     ELSE Operation(entry.id \o "_" \o entry.methods[m], entry.tag,
                                    <<>>, FALSE, 1)]]]

\* the choices for one path: <<path, parameter list, response>>
PathChoices ==
    {c \in (1..Len(PathMenu)) \X (0..Len(ParamLists)) \X (0..Len(ResponseNames)) :
        c[2] \in PathMenu[c[1]].params /\ c[3] \in PathMenu[c[1]].resps}

ChosenPath(c) ==
    PathEntry(PathMenu[c[1]],
              IF c[2] = 0 THEN <<>> ELSE ParamLists[c[2]],
              c[2] # 0, c[3])

GenIdle ==
    /\ pc = "loop"
    /\ pass_no = 1
    /\ route_idx = 1
    /\ query_schema = EmptyQuery
    /\ has_chart = FALSE
    /\ columns_defs = Unbound
    /\ widgets_json = <<>>
    /\ exc = NoException
    /\ widgets_file = <<>>
    /\ outputs = <<>>
    /\ now = StartDateDays

\* up to MaxRoutes paths, each with a parameter list and a response
InitRoutes ==
    /\ \E n \in 1..MaxRoutes : \E f \in [1..n -> PathChoices] :
          /\ \A i, j \in 1..n : i # j => f[i][1] # f[j][1]
          /\ openapi = [paths |-> [i \in 1..n |-> ChosenPath(f[i])],
                        components |-> Components]
    /\ hashseed \in HashSeeds

\* one route whose operation declares up to MaxParams parameters
InitParams ==
    /\ \E n \in 0..MaxParams : \E f \in [1..n -> 1..Len(ParamMenu)] :
          /\ \A i, j \in 1..n :
                i # j => <<ParamMenu[f[i]].name, ParamMenu[f[i]].in>>
                            # <<ParamMenu[f[j]].name, ParamMenu[f[j]].in>>
          /\ openapi = [paths |-> <<PathEntry(PathMenu[2],
                                              [i \in 1..n |-> ParamMenu[f[i]]],
                                              n > 0, 1)>>,
                        components |-> Components]
    /\ hashseed \in HashSeeds

\* one route whose results reference up to MaxRefs schemas
InitSchemas ==
    /\ \E n \in 0..MaxRefs : \E f \in [1..n -> 1..Len(ItemNames)] :
       \E shape \in 1..5 :
          openapi = [paths |-> <<PathEntry(PathMenu[2], <<>>, FALSE, 1)>>,
                     components |->
                        [schemas |->
                            <<[k |-> "OBBject_Hist",
                               v |-> Wrapper(ResultsShape(shape,
                                        [i \in 1..n |-> ItemNames[f[i]]]))]>>
                            \o ItemSchemas]]
    /\ hashseed \in HashSeeds

----------------------------------------------------------------------------
(* main.py: launch_api and the __main__ guard.  The values of the settings *)
(* dicts are strings; "" stands for the falsy values (None, "").           *)

RECURSIVE LowerFrom(_, _)
LowerFrom(s, i) ==
    IF i > Len(s) THEN ""
    ELSE (IF Ch(s, i) \in DOMAIN CaseTable THEN CaseTable[Ch(s, i)].lower ELSE Ch(s, i))
         \o LowerFrom(s, i + 1)

\* str.lower()
str_lower(s) == LowerFrom(s, 1)

RECURSIVE str_strip(_)
\* str.strip(), the whitespace being blanks
str_strip(s) ==
    IF s = "" THEN s
    ELSE IF Ch(s, 1) = " " THEN str_strip(SubSeq(s, 2, Len(s)))
    ELSE IF Ch(s, Len(s)) = " " THEN str_strip(SubSeq(s, 1, Len(s) - 1))
    ELSE s

\* main.py:126
DefaultSettings ==
    [credentials |-> <<>>, preferences |-> <<>>, defaults |-> [commands |-> <<>>]]

\* a file that does not exist, and one holding json.dump(settings)
NoFile == [exists |-> FALSE, content |-> json_dumps(DefaultSettings)]

File(settings) == [exists |-> TRUE, content |-> json_dumps(settings)]

\* main.py:156-162
PersistAnswer(persist_input) ==
    IF persist_input \in {"yes", "y"} THEN TRUE
    ELSE IF persist_input \in {"no", "n"} THEN FALSE
    ELSE FALSE

RECURSIVE UpdateTruthy(_, _, _)
\* main.py:173-175 : for k, v in items: if v: target[k] = v
UpdateTruthy(target, items, i) ==
    IF i > Len(items) THEN target
    ELSE UpdateTruthy(IF items[i].v # "" THEN DictSet(target, items[i].k, items[i].v)
                      ELSE target,
                      items, i + 1)

\* main.py:169-192 : new_settings; hub_defaults holds the key commands or
\* nothing
MergeSettings(current_settings, hub) ==
    LET credentials ==
            IF hub.credentials # <<>>
            THEN UpdateTruthy(current_settings.credentials, hub.credentials, 1)
            ELSE current_settings.credentials
        preferences ==
            IF hub.preferences # <<>>
            THEN UpdateTruthy(current_settings.preferences, hub.credentials, 1)
            ELSE current_settings.preferences
        merged_commands ==
            IF "commands" \in DOMAIN hub.defaults
            THEN [current_settings.defaults EXCEPT
                    !.commands = UpdateTruthy(@, hub.defaults.commands, 1)]
            ELSE current_settings.defaults
        \* main.py:192 : defaults.update(hub_defaults)
        defaults ==
            IF "commands" \in DOMAIN hub.defaults
            THEN [merged_commands EXCEPT !.commands = hub.defaults.commands]
            ELSE merged_commands
    IN [credentials |-> credentials, preferences |-> preferences,
        defaults |-> defaults]

\* what Hub.pull may bring; the last is the outcome of a failed connection
\* (main.py:144-148)
HubMenu ==
    <<[credentials |-> <<[k |-> "fmp_api_key", v |-> "hub-key"],
                         [k |-> "OPENAI_API_KEY", v |-> ""]>>,
       preferences |-> <<[k |-> "output_type", v |-> "dataframe"]>>,
       defaults |-> [commands |-> <<[k |-> "equity.price", v |-> "fmp"]>>]],
      [credentials |-> <<>>, preferences |-> <<>>, defaults |-> [none |-> TRUE]]>>

\* user_settings.json as a session may find it
SettingsMenu ==
    <<[credentials |-> <<[k |-> "fmp_api_key", v |-> "local-key"]>>,
       preferences |-> <<>>,
       defaults |-> [commands |-> <<>>]],
      [credentials |-> <<[k |-> "OPENAI_API_KEY", v |-> "sk-local"]>>,
       preferences |-> <<[k |-> "output_type", v |-> "OBBject"]>>,
       defaults |-> [commands |-> <<>>]]>>

PersistInputs == <<"yes", " Y ", "no", "N", "maybe">>

NoSession ==
    [pc |-> "idle", number |-> 0, current_settings |-> DefaultSettings,
     pat |-> "", hub |-> HubMenu[2], PERSIST |-> FALSE, openai_env |-> FALSE,
     host_env |-> "", port_env |-> "", port |-> 0,
     original |-> NoFile, merged |-> DefaultSettings, wrote |-> FALSE]

\* main.py:200-232 up to the next call that blocks
AfterSettings(sess) ==
    LET openai == DictHas(sess.current_settings.credentials, "OPENAI_API_KEY")
                  /\ DictGet(sess.current_settings.credentials, "OPENAI_API_KEY") # ""
        s1 == [sess EXCEPT !.openai_env = openai]
    IN IF s1.host_env = "" THEN [s1 EXCEPT !.pc = "host_prompt"]
       ELSE IF s1.port_env = "invalid" THEN [s1 EXCEPT !.pc = "port_prompt"]
       ELSE [s1 EXCEPT !.pc = "check_port", !.port = 8000]

\* main.py:118-132 : launch_api is called, reads the settings and prompts
\* for the PAT
LaunchStart ==
    /\ session.pc \in {"idle", "exited"}
    /\ session.number < MaxSessions
    /\ \E host_env \in {"", "127.0.0.1"} : \E port_env \in {"8000", "invalid"} :
          session' = [NoSession EXCEPT
                        !.pc = "pat_prompt",
                        !.number = session.number + 1,
                        !.current_settings =
                            IF settings_file.exists THEN json_loads(settings_file.content)
                            ELSE DefaultSettings,
                        !.host_env = host_env,
                        !.port_env = port_env,
                        !.original = settings_file]
    /\ UNCHANGED <<settings_file, copy_file>>
    /\ UNCHANGED genVars

\* main.py:128-134 : the PAT prompt is answered
EnterPat ==
    /\ session.pc = "pat_prompt"
    /\ \E pat \in {"", "pat-token"} :
          session' = IF pat = "" THEN AfterSettings(session)
                     ELSE [session EXCEPT !.pat = pat, !.pc = "hub_pull"]
    /\ UNCHANGED <<settings_file, copy_file>>
    /\ UNCHANGED genVars

\* main.py:137-154 : the hub answers or fails, the persist prompt is shown
HubPull ==
    /\ session.pc = "hub_pull"
    /\ \E h \in 1..Len(HubMenu) :
          session' = [session EXCEPT !.hub = HubMenu[h], !.pc = "persist_prompt"]
    /\ UNCHANGED <<settings_file, copy_file>>
    /\ UNCHANGED genVars

\* main.py:165-167 : the copy is written only when the settings are not kept
CopyWritten(persist, current_settings) ==
    IF persist = FALSE THEN File(current_settings) ELSE copy_file

\* main.py:151-198 : the persist prompt is answered, the copy and the merged
\* settings are written
AnswerPersist ==
    /\ session.pc = "persist_prompt"
    /\ \E a \in 1..Len(PersistInputs) :
          LET persist == PersistAnswer(str_lower(str_strip(PersistInputs[a])))
              new_settings == MergeSettings(session.current_settings, session.hub)
          IN /\ copy_file' = CopyWritten(persist, session.current_settings)
             /\ settings_file' = File(new_settings)
             /\ session' = AfterSettings([session EXCEPT
                                            !.PERSIST = persist,
                                            !.current_settings = new_settings,
                                            !.merged = new_settings,
                                            !.wrote = TRUE])
    /\ UNCHANGED genVars

\* main.py:209-211 : the host prompt is answered
AnswerHost ==
    /\ session.pc = "host_prompt"
    /\ session' = IF session.port_env = "invalid"
                  THEN [session EXCEPT !.pc = "port_prompt"]
                  ELSE [session EXCEPT !.pc = "check_port", !.port = 8000]
    /\ UNCHANGED <<settings_file, copy_file>>
    /\ UNCHANGED genVars

\* main.py:221-226 : the port prompt is answered
AnswerPort ==
    /\ session.pc = "port_prompt"
    /\ \E port \in {8000, 8080} :
          session' = [session EXCEPT !.pc = "check_port", !.port = port]
    /\ UNCHANGED <<settings_file, copy_file>>
    /\ UNCHANGED genVars

\* main.py:20-30, 228-235 : check_port returns the first free port at or
\* above the one asked for, and the server starts
CheckPort ==
    /\ session.pc = "check_port"
    /\ \E busy \in 0..1 :
          session' = [session EXCEPT !.pc = "serving", !.port = @ + busy]
    /\ UNCHANGED <<settings_file, copy_file>>
    /\ UNCHANGED genVars

\* main.py:236-240 : the finally clause around uvicorn.run
RestoreSettings ==
    IF copy_file.exists
    THEN settings_file' = copy_file /\ copy_file' = NoFile
    ELSE UNCHANGED <<settings_file, copy_file>>

\* main.py:234-240 : uvicorn.run returns or raises, the finally clause runs
ServerEnds ==
    /\ session.pc = "serving"
    /\ RestoreSettings
    /\ session' = [session EXCEPT !.pc = "exited"]
    /\ UNCHANGED genVars

\* main.py:128-232, 242-246 : KeyboardInterrupt at a prompt, in the hub call or
\* in the port probe, or an exception of the probe, leaves launch_api; no
\* finally clause is around these lines, and the __main__ guard prints
Interrupt ==
    /\ session.pc \in {"pat_prompt", "hub_pull", "persist_prompt", "host_prompt",
                       "port_prompt", "check_port"}
    /\ session' = [session EXCEPT !.pc = "exited"]
    /\ UNCHANGED <<settings_file, copy_file>>
    /\ UNCHANGED genVars

InitLaunch ==
    /\ openapi = [paths |-> <<>>, components |-> Components]
    /\ hashseed = 0
    /\ now = StartDateDays
    /\ pc = "serving"
    /\ pass_no = 1
    /\ route_idx = 1
    /\ query_schema = EmptyQuery
    /\ has_chart = FALSE
    /\ columns_defs = Unbound
    /\ widgets_json = <<>>
    /\ exc = NoException
    /\ widgets_file = json_dumps(<<>>)
    /\ outputs = <<<<>>>>
    /\ \/ settings_file = NoFile
       \/ \E i \in 1..Len(SettingsMenu) : settings_file = File(SettingsMenu[i])
    /\ copy_file = NoFile
    /\ session = NoSession

NextLaunch ==
    \/ LaunchStart
    \/ EnterPat
    \/ HubPull
    \/ AnswerPersist
    \/ AnswerHost
    \/ AnswerPort
    \/ CheckPort
    \/ ServerEnds
    \/ Interrupt

SpecLaunch == InitLaunch /\ [][NextLaunch]_vars

----------------------------------------------------------------------------
(* Specifications *)

\* launch_api is not under way
LaunchIdle ==
    /\ settings_file = NoFile
    /\ copy_file = NoFile
    /\ session = NoSession

Init ==
    /\ InitRoutes \/ InitParams \/ InitSchemas
    /\ GenIdle
    /\ LaunchIdle

Next == RouteStep \/ WriteWidgetsFile

Spec == Init /\ [][Next]_vars

NextRerun == RouteStep \/ WriteWidgetsFile \/ Restart

SpecRerun == Init /\ [][NextRerun]_vars

----------------------------------------------------------------------------
(* Vocabulary of the properties *)

\* number of loop iterations that ran to their end
Processed == route_idx - 1

RouteOperation(r) == GetOperation(openapi, routes[r])

BaseKey(r) == "OBB " \o RouteOperation(r).operationId

ChartKey(r) == BaseKey(r) \o "_chart"

\* the operation declares a query-location parameter named chart
DeclaresChart(operation) ==
    /\ "parameters" \in DOMAIN operation
    /\ \E i \in 1..Len(operation.parameters) :
          operation.parameters[i].in = "query" /\ operation.parameters[i].name = "chart"

\* the route's response schema is there and has properties.results
ResultsFound(r) ==
    HasResults(get_data_schema_for_widget(openapi, RouteOperation(r).operationId))

\* the lookup of the route's response schema returns without raising and
\* finds no schema with properties.results
ResultsNotFound(r) ==
    LET found == get_data_schema_for_widget(openapi, RouteOperation(r).operationId)
    IN found.raised = "" /\ ~HasResults(found)

IsBaseDescriptor(w) == "table" \in DOMAIN w.data

IsChartDescriptor(w) == "chart" \in DOMAIN w.data /\ "table" \notin DOMAIN w.data

\* no two descriptors of the pass share a key: no selected operationId is
\* another selected operationId followed by _chart
NoKeyCollision ==
    \A r1, r2 \in 1..Len(routes) :
        r1 # r2 => /\ BaseKey(r2) # ChartKey(r1)
                   /\ BaseKey(r2) # BaseKey(r1)

\* the route get_query_schema_for_widget was last called on, 0 before any call
QueryRoute == IF pc = "raised" THEN route_idx ELSE Processed

----------------------------------------------------------------------------
(* C1 *)

\* C1: a route whose response schema is not found still yields a base widget,
\* that widget's table block has no columnsDefs, and the pass does not abort
\* on such a route.
C1_NotFoundRouteYieldsPlainWidget ==
    /\ \A r \in 1..Processed :
          ResultsNotFound(r) =>
             /\ DictHas(widgets_json, BaseKey(r))
             /\ LET w == DictGet(widgets_json, BaseKey(r))
                IN IsBaseDescriptor(w) => "columnsDefs" \notin DOMAIN w.data.table
    /\ ~(pc = "raised" /\ route_idx <= Len(routes) /\ ResultsNotFound(route_idx))

(* C2 *)

\* C2: get_query_schema_for_widget, get_data_schema_for_widget and
\* data_schema_to_columns_defs never raise on a description that has paths:
\* an exception that ends the pass never comes out of one of them.
C2_ExtractorsNeverRaise ==
    pc = "raised" =>
        exc.in \notin {"get_query_schema_for_widget", "get_data_schema_for_widget",
                       "data_schema_to_columns_defs"}

(* C3 *)

\* C3: in every base widget with column definitions, the table's index is
\* "date" when a column date exists, "period" when a column period exists and
\* no column date, and absent when neither exists.
C3_TableIndexFollowsColumns ==
    \A i \in 1..Len(widgets_json) :
        LET w == widgets_json[i].v
        IN (IsBaseDescriptor(w) /\ "columnsDefs" \in DOMAIN w.data.table) =>
              LET table == w.data.table
                  fields == SeqToSet(ColumnFields(table.columnsDefs))
              IN /\ "date" \in fields =>
                        ("index" \in DOMAIN table /\ table.index = "date")
                 /\ ("period" \in fields /\ "date" \notin fields) =>
                        ("index" \in DOMAIN table /\ table.index = "period")
                 /\ ("date" \notin fields /\ "period" \notin fields) =>
                        "index" \notin DOMAIN table

(* C4 *)

ChartStoredFor(r) ==
    /\ DictHas(widgets_json, ChartKey(r))
    /\ IsChartDescriptor(DictGet(widgets_json, ChartKey(r)))

ChartWellFormed(r) ==
    LET c == DictGet(widgets_json, ChartKey(r))
    IN /\ c.widgetId = ChartKey(r)
       /\ "table" \notin DOMAIN c.data
       /\ c.data.dataKey = "chart.content"
       /\ "chart" \in DOMAIN c.params /\ c.params.chart = TRUE

BaseLeftUnchanged(r) ==
    /\ DictHas(widgets_json, BaseKey(r))
    /\ LET b == DictGet(widgets_json, BaseKey(r))
       IN /\ b.widgetId = BaseKey(r)
          /\ "table" \in DOMAIN b.data
          /\ b.data.dataKey = "results"
          /\ "chart" \notin DOMAIN b.params

ChartIffHasChart ==
    \A r \in 1..Processed :
        /\ ChartStoredFor(r) <=> DeclaresChart(RouteOperation(r))
        /\ ChartStoredFor(r) => ChartWellFormed(r)
        /\ BaseLeftUnchanged(r)

\* C4 as stated: for every route the loop has processed, a chart descriptor
\* is stored iff the route has a chart query parameter, it is keyed and named
\* by the base widgetId followed by _chart, has no table block, has dataKey
\* chart.content and params.chart true, and the base descriptor keeps its
\* table block and has no chart entry in params.
C4_ChartIffHasChart_AsStated == ChartIffHasChart

\* C4 amended: the same, provided no two descriptors of the pass share a key.
C4_ChartIffHasChart == NoKeyCollision => ChartIffHasChart

C4_Witness ==
    /\ NoKeyCollision
    /\ \E r \in 1..Processed :
          /\ DeclaresChart(RouteOperation(r))
          /\ ChartStoredFor(r)
          /\ "columnsDefs" \in DOMAIN DictGet(widgets_json, BaseKey(r)).data.table

(* C5 *)

\* the last processed route whose response schema had properties.results:
\* columns_defs holds the list computed for it (0 when there is none)
LastEnriched ==
    IF \E r \in 1..Processed : ResultsFound(r)
    THEN CHOOSE r \in 1..Processed :
            ResultsFound(r) /\ \A q \in 1..Processed : ResultsFound(q) => q <= r
    ELSE 0

ResultsDescriptor(r) ==
    DictGet(get_data_schema_for_widget(openapi, RouteOperation(r).operationId)
                .schema.properties, "results")

\* the descriptor is an anyOf whose array members hold a oneOf of $ref
ExpectedShape(desc) ==
    /\ "anyOf" \in DOMAIN desc
    /\ \A i \in 1..Len(desc.anyOf) :
          "items" \in DOMAIN desc.anyOf[i] =>
             /\ "oneOf" \in DOMAIN desc.anyOf[i].items
             /\ \A j \in 1..Len(desc.anyOf[i].items.oneOf) :
                   "$ref" \in DOMAIN desc.anyOf[i].items.oneOf[j]

\* R: the referenced schema names that have an entry in components.schemas
ResolvedNames(desc) ==
    {n \in UNION {{split_last(desc.anyOf[i].items.oneOf[j]["$ref"]) :
                      j \in 1..Len(desc.anyOf[i].items.oneOf)} :
                  i \in {m \in 1..Len(desc.anyOf) : "items" \in DOMAIN desc.anyOf[m]}} :
        DictHas(openapi.components.schemas, n)}

KeysOf(name) == PropertyKeys(DictGet(openapi.components.schemas, name))

KeysOnEveryVariant(names) ==
    {key \in UNION {KeysOf(n) : n \in names} : \A n \in names : key \in KeysOf(n)}

\* C5: for a results descriptor of shape anyOf -> items -> oneOf -> $ref the
\* column list is empty when no referenced schema resolves, and otherwise holds
\* exactly one column definition per key common to all resolved schemas, with
\* no field repeated.
C5_ColumnsAreCommonKeys ==
    LastEnriched > 0 =>
        LET desc == ResultsDescriptor(LastEnriched)
            fields == ColumnFields(columns_defs.v)
        IN ExpectedShape(desc) =>
              IF ResolvedNames(desc) = {} THEN columns_defs.v = <<>>
              ELSE /\ SeqToSet(fields) = KeysOnEveryVariant(ResolvedNames(desc))
                   /\ NoDuplicates(fields)

C5_Witness ==
    /\ LastEnriched > 0
    /\ ExpectedShape(ResultsDescriptor(LastEnriched))
    /\ Cardinality(ResolvedNames(ResultsDescriptor(LastEnriched))) = 2
    /\ Len(columns_defs.v) = 2
    /\ \E n \in ResolvedNames(ResultsDescriptor(LastEnriched)) :
          Cardinality(KeysOf(n)) > 2

(* C6 *)

\* C6: the optional map never has a key sort, limit, order or chart, and
\* has_chart is true exactly when the operation declares a query-location
\* parameter named chart.
C6_SpecialParamsExcluded ==
    QueryRoute > 0 =>
        /\ \A i \in 1..Len(query_schema.optional) :
              query_schema.optional[i].k \notin {"sort", "limit", "order", "chart"}
        /\ has_chart <=> DeclaresChart(RouteOperation(QueryRoute))

C6_Witness ==
    /\ QueryRoute > 0
    /\ has_chart
    /\ LET operation == RouteOperation(QueryRoute)
       IN /\ "parameters" \in DOMAIN operation
          /\ \E i \in 1..Len(operation.parameters) :
                /\ operation.parameters[i].name \in {"sort", "limit", "order"}
                /\ operation.parameters[i].in = "query"
                /\ "anyOf" \in DOMAIN operation.parameters[i].schema

(* C8 *)

Endpoint(p) == str_replace(p, "/api", "api")

BaseWidgetFor(p) ==
    \E i \in 1..Len(widgets_json) :
        IsBaseDescriptor(widgets_json[i].v) /\ widgets_json[i].v.endpoint = Endpoint(p)

Qualifies(entry) == str_startswith(entry.k, "/api") /\ DictHas(entry.v, "get")

IsBaseEntry(entry) == IsBaseDescriptor(entry.v)

BaseEndpointsStored ==
    LET stored == SelectSeq(widgets_json, IsBaseEntry)
    IN [i \in 1..Len(stored) |-> stored[i].v.endpoint]

QualifyingEndpoints ==
    LET chosen == SelectSeq(openapi.paths, Qualifies)
    IN [i \in 1..Len(chosen) |-> Endpoint(chosen[i].k)]

BaseWidgetIffSelected ==
    pc = "serving" =>
        /\ \A i \in 1..Len(openapi.paths) :
              BaseWidgetFor(openapi.paths[i].k) <=> Qualifies(openapi.paths[i])
        /\ BaseEndpointsStored = QualifyingEndpoints

\* C8 as stated: the mapping of a completed pass holds a base widget for a
\* path iff the path begins with /api and declares a get operation, and the
\* base widgets lie in the mapping in the iteration order of paths.
C8_BaseWidgetIffSelected_AsStated == BaseWidgetIffSelected

\* C8 amended: the same, provided no two descriptors of the pass share a key.
C8_BaseWidgetIffSelected == NoKeyCollision => BaseWidgetIffSelected

C8_Witness ==
    /\ pc = "serving"
    /\ NoKeyCollision
    /\ Len(routes) >= 2
    /\ Len(BaseEndpointsStored) >= 2

C8_WitnessExcluded ==
    /\ pc = "serving"
    /\ NoKeyCollision
    /\ Len(routes) >= 1
    /\ Len(routes) < Len(openapi.paths)

(* C9 *)

AnyOfExpectation(name, members) ==
    LET withEnum == {j \in 1..Len(members) : "enum" \in DOMAIN members[j]}
        types == {members[j].type :
                     j \in {m \in 1..Len(members) : "type" \in DOMAIN members[m]}}
        stored == DictHas(query_schema.optional, name)
        value == DictGet(query_schema.optional, name)
    IN IF withEnum # {}
       THEN /\ stored
            /\ value.t = "list"
            /\ SeqToSet(value.l) = UNION {SeqToSet(members[j].enum) : j \in withEnum}
            /\ NoDuplicates(value.l)
       ELSE IF "string" \in types THEN stored /\ value = PyStr("string")
       ELSE IF "integer" \in types THEN stored /\ value = PyInt(0)
       ELSE IF "null" \in types THEN stored /\ value = PyNone
       ELSE ~stored

\* C9: a query parameter (not sort, limit, order, chart or start_date) with no
\* direct enum and an anyOf gets the deduplicated union of its members' enum
\* values if a member has an enum, otherwise "string" if a member has type
\* string, else 0 if one has type integer, else null if one has type null,
\* and otherwise is omitted.
C9_AnyOfValue ==
    QueryRoute > 0 =>
        LET operation == RouteOperation(QueryRoute)
        IN "parameters" \in DOMAIN operation =>
              \A i \in 1..Len(operation.parameters) :
                  LET param == operation.parameters[i]
                  IN (/\ param.in = "query"
                      /\ param.name \notin {"sort", "limit", "order", "chart",
                                            "start_date"}
                      /\ "enum" \notin DOMAIN param.schema
                      /\ "anyOf" \in DOMAIN param.schema)
                     => AnyOfExpectation(param.name, param.schema.anyOf)

C9_Witness ==
    /\ QueryRoute > 0
    /\ DictHas(query_schema.optional, "symbol")
    /\ DictGet(query_schema.optional, "symbol").t = "list"
    /\ Len(DictGet(query_schema.optional, "symbol").l) = 3
    /\ LET operation == RouteOperation(QueryRoute)
       IN \E i \in 1..Len(operation.parameters) :
             /\ operation.parameters[i].name = "symbol"
             /\ operation.parameters[i].in = "query"
             /\ "anyOf" \in DOMAIN operation.parameters[i].schema
             /\ Len(CollectEnums(operation.parameters[i].schema.anyOf, 1)) = 4

(* C7 *)

\* C7: every pass over an unchanged interface description yields the same
\* output mapping: same keys in the same order, same values, including the
\* order of every enumerated value list.
C7_PassesYieldIdenticalMappings ==
    \A a, b \in 1..Len(outputs) : outputs[a] = outputs[b]

(* C10 *)

\* C10: when launch_api has ended after a PAT was entered and the merged
\* settings were written, then if the user did not choose to persist,
\* user_settings.json holds the settings it had before the session and
\* user_settings_copy.json does not exist, and if the user chose to persist,
\* user_settings.json holds the merged settings.
C10_SettingsRestoredOrPersisted ==
    (session.pc = "exited" /\ session.pat # "" /\ session.wrote
     /\ session.original.exists) =>
        IF session.PERSIST
        THEN settings_file = File(session.merged)
        ELSE settings_file = session.original /\ ~copy_file.exists

====
